---- MODULE Spec2Model ----
(***************************************************************************)
(* Model of dashboard.py: ingestion of the trend / blog / news CSV files   *)
(* (load_all_data), the keyword and date filter (filter_data), the         *)
(* st.cache_data cache with its Reload button, and the part of the chart   *)
(* code that writes columns into the filtered trend table.                 *)
(*                                                                         *)
(* A table is [columns |-> set of column names, rows |-> sequence of rows],*)
(* a row is a function from the table's columns to cell values.  A         *)
(* timestamp is day * TicksPerDay + tick (tick 0 is midnight); NaT is the  *)
(* null timestamp.  A file name is a sequence of characters, abstracted to *)
(* underscore-free chunks and the separator "_".                           *)
(***************************************************************************)
EXTENDS Integers, Sequences, FiniteSets, TLC

VARIABLES
    disk,               \* the CSV files under data/datalab, data/blog, data/news
    cache,              \* st.cache_data's entry for load_all_data()
    data_all,           \* the tables load_all_data() returned to the script run
    selected_keywords,  \* the sidebar multiselect
    start_date,         \* the sidebar date inputs (calendar days)
    end_date,
    filtered_data,      \* the tables filter_data() returned
    same_object,        \* per category: filtered_data[c] is the object data_all[c]
    last,               \* what happened last: "FileChange", "Rerun", "ReloadRun"
    pc                  \* position of the script / of the function under test

vars == <<disk, cache, data_all, selected_keywords, start_date, end_date,
          filtered_data, same_object, last, pc>>

-----------------------------------------------------------------------------
(* Bounds *)

MaxDay == 1
TicksPerDay == 2
MaxFiles == 2
MaxRows == 2

-----------------------------------------------------------------------------
(* Values *)

Category == {"trend", "blog", "news"}

Days == 0..MaxDay

NaT == -1

Timestamp(day, tick) == day * TicksPerDay + tick

DayOf(ts) == ts \div TicksPerDay

\* pd.Timestamp(start_date): a calendar date becomes midnight of that day
pdTimestamp(d) == Timestamp(d, 0)

\* the category's date source column
DateSource(c) ==
    CASE c = "trend" -> "period"
      [] c = "blog"  -> "postdate"
      [] c = "news"  -> "pubDate"

\* cells of a date source column as they stand in the CSV file:
\*   date      a calendar date in the category's own format
\*   datetime  a date with a time of day
\*   bad       a string that is no date
\*   empty     an empty cell (NaN)
RawDate(d)        == [kind |-> "date", day |-> d, tick |-> 0]
RawDatetime(d, t) == [kind |-> "datetime", day |-> d, tick |-> t]
RawBad            == [kind |-> "bad", day |-> 0, tick |-> 0]
RawEmpty          == [kind |-> "empty", day |-> 0, tick |-> 0]

RawValues ==
    {RawDate(d) : d \in Days}
      \cup {RawDatetime(d, t) : d \in Days, t \in 1..(TicksPerDay - 1)}
      \cup {RawBad, RawEmpty}

EmptyFrame == [columns |-> {}, rows |-> <<>>]

\* DataFrame.empty: some axis has length 0
IsEmpty(df) == df.columns = {} \/ Len(df.rows) = 0

NoCache == [present |-> FALSE, value |-> [c \in Category |-> EmptyFrame]]

-----------------------------------------------------------------------------
(* File names *)

RECURSIVE SplitAcc(_, _, _)
SplitAcc(s, cur, acc) ==
    IF s = <<>> THEN Append(acc, cur)
    ELSE IF Head(s) = "_" THEN SplitAcc(Tail(s), <<>>, Append(acc, cur))
    ELSE SplitAcc(Tail(s), Append(cur, Head(s)), acc)

\* filename.split('_'): the list of tokens, each a sequence of characters
Split(s) == SplitAcc(s, <<>>, <<>>)

RECURSIVE Join(_)
\* the characters of a token as one string
Join(tok) == IF tok = <<>> THEN "" ELSE Head(tok) \o Join(Tail(tok))

\* index (from 1) of the token the loader takes as keyword: parts[1] / parts[2]
KeywordIndex(c) == IF c = "trend" THEN 2 ELSE 3

\* the loader's guard on the number of tokens: len(parts) >= 3
MinParts(c) == 3

-----------------------------------------------------------------------------
(* Date parsing *)

\* pd.to_datetime(..., errors='coerce') on one cell, free format
ToDatetimeCoerce(v) ==
    IF v.kind \in {"date", "datetime"} THEN Timestamp(v.day, v.tick) ELSE NaT

\* pd.to_datetime(..., format='%Y%m%d', errors='coerce') on one cell
ToDatetimeYmdCoerce(v) ==
    IF v.kind = "date" THEN Timestamp(v.day, 0) ELSE NaT

\* pd.to_datetime(series) with the default errors='raise' raises on a cell
\* that is no date
ToDatetimeRaises(cells) == \E i \in 1..Len(cells) : cells[i].kind = "bad"

ParseDate(c, v) ==
    CASE c = "trend" -> ToDatetimeCoerce(v)
      [] c = "blog"  -> ToDatetimeYmdCoerce(v)
      [] c = "news"  -> ToDatetimeCoerce(v)

-----------------------------------------------------------------------------
(* load_all_data *)

\* a file: name, whether pd.read_csv succeeds, whether the header has the
\* date source column, and per line the cell of that column
HasDateSource(f) == f.dated

\* the body of the try block for one file
FragmentRaises(c, f) ==
    /\ Len(Split(f.name)) >= MinParts(c)
    /\ \/ ~f.readable
       \/ c = "trend" /\ HasDateSource(f) /\ ToDatetimeRaises(f.cells)

FragmentColumns(c, f) ==
    {"data", "keyword"} \cup (IF HasDateSource(f) THEN {DateSource(c), "date"} ELSE {})

FragmentRow(c, f, i) ==
    [col \in FragmentColumns(c, f) |->
        CASE col = "data"    -> [file |-> f.name, line |-> i]
          [] col = "keyword" -> Join(Split(f.name)[KeywordIndex(c)])
          [] col = "date"    -> ParseDate(c, f.cells[i])
          [] OTHER           -> f.cells[i]]

\* mutant: the append sits inside the "if column in df.columns" block
FragmentSkipsUndated(c, f) ==
    IF Len(Split(f.name)) < MinParts(c) \/ FragmentRaises(c, f) \/ ~HasDateSource(f) THEN <<>>
    ELSE << [columns |-> FragmentColumns(c, f),
             rows    |-> [i \in 1..Len(f.cells) |-> FragmentRow(c, f, i)]] >>

\* the DataFrame appended to trend_dfs / blog_dfs / news_dfs for one file,
\* as a sequence of zero or one fragments
Fragment(c, f) ==
    IF Len(Split(f.name)) < MinParts(c) \/ FragmentRaises(c, f) THEN <<>>
    ELSE << [columns |-> FragmentColumns(c, f),
             rows    |-> [i \in 1..Len(f.cells) |-> FragmentRow(c, f, i)]] >>

RECURSIVE Fragments(_, _)
\* the for loop over the files of one category
Fragments(c, files) ==
    IF files = <<>> THEN <<>>
    ELSE Fragment(c, Head(files)) \o Fragments(c, Tail(files))

\* the missing marker pd.concat puts into a column a fragment lacks
Missing(col) == IF col = "date" THEN NaT ELSE "NaN"

RECURSIVE UnionColumns(_)
UnionColumns(dfs) ==
    IF dfs = <<>> THEN {} ELSE Head(dfs).columns \cup UnionColumns(Tail(dfs))

Reindex(r, cols) ==
    [col \in cols |-> IF col \in DOMAIN r THEN r[col] ELSE Missing(col)]

RECURSIVE ConcatRows(_, _)
ConcatRows(dfs, cols) ==
    IF dfs = <<>> THEN <<>>
    ELSE [i \in 1..Len(Head(dfs).rows) |-> Reindex(Head(dfs).rows[i], cols)]
           \o ConcatRows(Tail(dfs), cols)

\* pd.concat(dfs, ignore_index=True)
Concat(dfs) == [columns |-> UnionColumns(dfs), rows |-> ConcatRows(dfs, UnionColumns(dfs))]

\* one category of load_all_data: the empty DataFrame unless a fragment exists
LoadCategory(c, files) ==
    IF Fragments(c, files) = <<>> THEN EmptyFrame ELSE Concat(Fragments(c, files))

\* the body of load_all_data on the files as they are
load_all_data(d) == [c \in Category |-> LoadCategory(c, d[c])]

-----------------------------------------------------------------------------
(* filter_data *)

\* df['keyword'].isin(keywords)
KeywordMask(r, keywords) == r["keyword"] \in keywords

\* mutant: the mask is applied even when no keyword is selected
FilterKeywordAlways(df, keywords) ==
    [df EXCEPT !.rows = SelectSeq(@, LAMBDA r : KeywordMask(r, keywords))]

\* the keyword step: df[mask_kw].copy() when keywords is non-empty, else df.copy()
FilterKeyword(df, keywords) ==
    IF keywords # {}
      THEN [df EXCEPT !.rows = SelectSeq(@, LAMBDA r : KeywordMask(r, keywords))]
      ELSE df

\* df_sub.dropna(subset=['date'])
DropNa(df) == [df EXCEPT !.rows = SelectSeq(@, LAMBDA r : r["date"] # NaT)]

\* mutant: the upper bound of the range is not tested
DateMaskOpenEnd(r, start_ts, end_ts) == r["date"] >= start_ts

\* (df_sub['date'] >= start_ts) & (df_sub['date'] <= end_ts)
DateMask(r, start_ts, end_ts) == r["date"] >= start_ts /\ r["date"] <= end_ts

\* the date step, taken only when the table has a 'date' column
FilterDate(df, start_ts, end_ts) ==
    IF "date" \in df.columns
      THEN [DropNa(df) EXCEPT !.rows = SelectSeq(@, LAMBDA r : DateMask(r, start_ts, end_ts))]
      ELSE df

RECURSIVE KeepByMaskOf(_, _, _, _)
KeepByMaskOf(rows, ref, start_ts, end_ts) ==
    IF rows = <<>> \/ ref = <<>> THEN <<>>
    ELSE (IF Head(ref)["date"] # NaT /\ DateMask(Head(ref), start_ts, end_ts)
            THEN <<Head(rows)>> ELSE <<>>)
           \o KeepByMaskOf(Tail(rows), Tail(ref), start_ts, end_ts)

\* mutant: the date mask is computed on df, not on df_sub, and applied to
\* df_sub by position
FilterFrameMisaligned(df, keywords, sd, ed) ==
    IF IsEmpty(df)
      THEN [same |-> TRUE, frame |-> df]
      ELSE [same |-> FALSE,
            frame |-> IF "date" \in df.columns
                        THEN [df EXCEPT !.rows =
                                KeepByMaskOf(DropNa(FilterKeyword(df, keywords)).rows, df.rows,
                                             pdTimestamp(sd), pdTimestamp(ed))]
                        ELSE FilterKeyword(df, keywords)]

\* one pass of the loop of filter_data: the table stored under the key, and
\* whether it is the input object itself (the df.empty short cut) or a new one
FilterFrame(df, keywords, sd, ed) ==
    IF IsEmpty(df)
      THEN [same |-> TRUE, frame |-> df]
      ELSE [same |-> FALSE,
            frame |-> FilterDate(FilterKeyword(df, keywords), pdTimestamp(sd), pdTimestamp(ed))]

filter_data(data, keywords, sd, ed) ==
    [c \in Category |-> FilterFrame(data[c], keywords, sd, ed).frame]

filter_data_same(data, keywords, sd, ed) ==
    [c \in Category |-> FilterFrame(data[c], keywords, sd, ed).same]

-----------------------------------------------------------------------------
(* The files *)

Prefix(c) == c

Stamp == "20240101.csv"

Subtype(c) ==
    CASE c = "trend" -> "daily"
      [] c = "blog"  -> "review"
      [] c = "news"  -> "issue"

Keywords == {"netflix", "tving"}

\* names of files found in a category's directory
FileNames(c) ==
    {<<Prefix(c), "_", k, "_", Stamp>> : k \in Keywords}
      \cup {<<Prefix(c), "_", Subtype(c), "_", k, "_", Stamp>> : k \in Keywords}
      \cup {<<Prefix(c), "_", Stamp>>}

RECURSIVE CellSeqs(_)
CellSeqs(n) ==
    IF n = 0 THEN {<<>>}
    ELSE CellSeqs(n - 1)
           \cup {Append(s, v) : s \in {t \in CellSeqs(n - 1) : Len(t) = n - 1}, v \in RawValues}

Contents ==
    {[readable |-> FALSE, dated |-> FALSE, cells |-> <<>>]}
      \cup {[readable |-> TRUE, dated |-> TRUE, cells |-> s] : s \in CellSeqs(MaxRows)}
      \cup {[readable |-> TRUE, dated |-> FALSE, cells |-> [i \in 1..n |-> RawEmpty]] :
              n \in 0..MaxRows}

Files(c) ==
    {[name |-> nm, readable |-> ct.readable, dated |-> ct.dated, cells |-> ct.cells] :
        nm \in FileNames(c), ct \in Contents}

RECURSIVE Lines(_)
Lines(files) == IF files = <<>> THEN 0 ELSE Len(Head(files).cells) + Lines(Tail(files))

\* a directory holds files of distinct names; the lines of all its files are
\* at most MaxRows
Fits(files, f) ==
    /\ Lines(files) + Len(f.cells) <= MaxRows
    /\ \A i \in 1..Len(files) : files[i].name # f.name

RECURSIVE Directories(_, _)
\* what glob may return for a directory: up to n files, in any order
Directories(c, n) ==
    IF n = 0 THEN {<<>>}
    ELSE LET prev == Directories(c, n - 1)
             all  == Files(c)
         IN  prev \cup UNION { {Append(s, f) : f \in {g \in all : Fits(s, g)}} :
                                 s \in {t \in prev : Len(t) = n - 1} }

EmptyDisk == [c \in Category |-> <<>>]

\* the inputs of the functions: one populated directory
IsInput(d) ==
    \E c \in Category : \E files \in Directories(c, MaxFiles) :
        d = [EmptyDisk EXCEPT ![c] = files]

-----------------------------------------------------------------------------
(* The functions applied to bounded inputs *)

EmptyData == [c \in Category |-> EmptyFrame]

FnInit ==
    /\ IsInput(disk)
    /\ cache = NoCache
    /\ data_all = EmptyData
    /\ selected_keywords = {}
    /\ start_date = 0
    /\ end_date = 0
    /\ filtered_data = EmptyData
    /\ same_object = [c \in Category |-> FALSE]
    /\ last = "none"
    /\ pc = "start"

CallLoad ==
    /\ pc = "start"
    /\ data_all' = load_all_data(disk)
    /\ pc' = "loaded"
    /\ UNCHANGED <<disk, cache, selected_keywords, start_date, end_date,
                   filtered_data, same_object, last>>

CallFilter ==
    /\ pc = "loaded"
    /\ \E K \in SUBSET Keywords, sd \in Days, ed \in Days :
         /\ selected_keywords' = K
         /\ start_date' = sd
         /\ end_date' = ed
         /\ filtered_data' = filter_data(data_all, K, sd, ed)
         /\ same_object' = filter_data_same(data_all, K, sd, ed)
    /\ pc' = "filtered"
    /\ UNCHANGED <<disk, cache, data_all, last>>

FnNext == CallLoad \/ CallFilter

FnSpec == FnInit /\ [][FnNext]_vars

-----------------------------------------------------------------------------
(* The dashboard script: cache, sidebar, filter, trend tab *)

\* mutant: the button does not clear the cache
cache_clear_keeps(ch) == ch

\* st.cache_data.clear(): every cached entry is dropped
cache_clear(ch) == NoCache

\* @st.cache_data around load_all_data(): the stored value on a hit, the
\* function body on a miss
cached_load_all_data(ch, d) == IF ch.present THEN ch.value ELSE load_all_data(d)

\* the keyword column's distinct values
KeywordsOf(df) == {df.rows[i]["keyword"] : i \in 1..Len(df.rows)}

\* the options of the keyword multiselect
available_keywords(data) ==
    IF ~IsEmpty(data["trend"]) THEN KeywordsOf(data["trend"])
    ELSE IF ~IsEmpty(data["blog"]) THEN KeywordsOf(data["blog"])
    ELSE {}

\* df_trend['date'].dt.to_period('M') and .dt.day_name()
MonthOf(ts) == DayOf(ts) \div 30
DayNameOf(ts) == DayOf(ts) % 7

\* mutant: the trend tab runs without looking at df_trend.empty
TrendTabRunsAlways(df_trend) == TRUE

\* the trend tab draws and writes into df_trend only behind this guard
TrendTabRuns(df_trend) == ~IsEmpty(df_trend)

\* px.line(df_trend, x='date', ...) raises when the table has no 'date' column
TrendTabRaises(df_trend) == TrendTabRuns(df_trend) /\ "date" \notin df_trend.columns

AddTrendColumns(r) ==
    [col \in DOMAIN r \cup {"month", "day_name"} |->
        CASE col = "month"    -> MonthOf(r["date"])
          [] col = "day_name" -> DayNameOf(r["date"])
          [] OTHER            -> r[col]]

\* the object df_trend after the trend tab: df_trend['month'] = ... and
\* df_trend['day_name'] = ...
TrendTab(df_trend) ==
    IF TrendTabRuns(df_trend) /\ ~TrendTabRaises(df_trend)
      THEN [columns |-> df_trend.columns \cup {"month", "day_name"},
            rows    |-> [i \in 1..Len(df_trend.rows) |-> AddTrendColumns(df_trend.rows[i])]]
      ELSE df_trend

\* the tables after the tabs ran, for an object the trend tab received
Rendered(df, keywords) == IF keywords = {} THEN df ELSE TrendTab(df)

\* where the script run ends: st.stop() without keywords, an exception in the
\* trend tab, or the end of the script
RunEnd(df_trend, keywords) ==
    IF keywords = {} THEN "stopped"
    ELSE IF TrendTabRaises(df_trend) THEN "raised"
    ELSE "rendered"

\* fixtures of the session: per directory no file, a file with a header
\* only, or a file with lines; for trend also a file without the period column
SessionName(c) ==
    IF c = "trend" THEN <<Prefix(c), "_", "netflix", "_", Stamp>>
    ELSE <<Prefix(c), "_", Subtype(c), "_", "netflix", "_", Stamp>>

SessionFile(c, dated, cells) ==
    [name |-> SessionName(c), readable |-> TRUE, dated |-> dated, cells |-> cells]

SessionDirectories(c) ==
    { <<>>,
      << SessionFile(c, TRUE, <<>>) >>,
      << SessionFile(c, TRUE, <<RawDate(0), RawDatetime(MaxDay, TicksPerDay - 1)>>) >> }
      \cup (IF c = "trend" THEN { << SessionFile(c, FALSE, <<RawEmpty>>) >> } ELSE {})

SessionDisks ==
    {[trend |-> t, blog |-> b, news |-> n] :
        t \in SessionDirectories("trend"),
        b \in SessionDirectories("blog"),
        n \in SessionDirectories("news")}

Init ==
    /\ disk \in SessionDisks
    /\ cache = NoCache
    /\ data_all = EmptyData
    /\ selected_keywords = {}
    /\ start_date = 0
    /\ end_date = 0
    /\ filtered_data = EmptyData
    /\ same_object = [c \in Category |-> FALSE]
    /\ last = "none"
    /\ pc = "idle"

\* a file of one directory is written, replaced or removed outside the
\* dashboard
FileChange ==
    /\ \E c \in Category : \E files \in SessionDirectories(c) \ {disk[c]} :
         disk' = [disk EXCEPT ![c] = files]
    /\ last' = "FileChange"
    /\ UNCHANGED <<cache, data_all, selected_keywords, start_date, end_date,
                   filtered_data, same_object, pc>>

\* one run of the script, top to bottom (each intermediate value is bound
\* once: loaded is data_all as returned, out is filtered_data as returned)
ScriptRun(button) ==
    \E loaded \in {cached_load_all_data(IF button THEN cache_clear(cache) ELSE cache, disk)} :
      /\ last' = (IF button THEN "ReloadRun" ELSE "Rerun")
      /\ cache' = [present |-> TRUE, value |-> loaded]
      /\ \E K \in SUBSET available_keywords(loaded), sd \in Days, ed \in Days :
           \E out \in {filter_data(loaded, K, sd, ed)} :
           \E df_trend \in {Rendered(out["trend"], K)} :
             LET same == filter_data_same(loaded, K, sd, ed)
             IN  /\ selected_keywords' = K
                 /\ start_date' = sd
                 /\ end_date' = ed
                 /\ same_object' = same
                 /\ filtered_data' = [out EXCEPT !["trend"] = df_trend]
                 /\ data_all' = [loaded EXCEPT !["trend"] =
                                    IF same["trend"] THEN df_trend ELSE @]
                 /\ pc' = RunEnd(out["trend"], K)
      /\ UNCHANGED disk

\* a widget change reruns the script
Rerun == ScriptRun(FALSE)

\* the Reload button reruns the script with the button set
ReloadRun == ScriptRun(TRUE)

Next == FileChange \/ Rerun \/ ReloadRun

Spec == Init /\ [][Next]_vars

-----------------------------------------------------------------------------
(* Vocabulary of the properties *)

\* the number of tokens of the naming convention: trend_<keyword>_<date>.csv,
\* <category>_<subtype>_<keyword>_<date>.csv
ConventionParts(c) == IF c = "trend" THEN 3 ELSE 4

RowsOf(df) == {df.rows[i] : i \in 1..Len(df.rows)}

\* the table holds line j of file f
HasLine(df, f, j) ==
    \E k \in 1..Len(df.rows) : df.rows[k]["data"] = [file |-> f.name, line |-> j]

LineOf(df, f, j) ==
    CHOOSE r \in RowsOf(df) : r["data"] = [file |-> f.name, line |-> j]

FilesOf(c) == {disk[c][i] : i \in 1..Len(disk[c])}

\* a readable file named as the convention of its category asks
WellFormed(c, f) == f.readable /\ Len(Split(f.name)) >= ConventionParts(c)

\* the keyword the convention gives the file
FileKeyword(c, f) == Join(Split(f.name)[KeywordIndex(c)])

PassesKeywordTest(k) == selected_keywords = {} \/ k \in selected_keywords

\* the cell is no date in the format of the category
FailsToParse(c, v) == v.kind = "bad" \/ (c = "blog" /\ v.kind = "datetime")

Loaded == pc \in {"loaded", "filtered"}

Filtered == pc = "filtered"

RunEnded == pc \in {"stopped", "raised", "rendered"}

RemoveAt(seq, i) == SubSeq(seq, 1, i - 1) \o SubSeq(seq, i + 1, Len(seq))

-----------------------------------------------------------------------------
(* C1 *)

\* C1 as stated: every row of every table filter_data returns has a non-null
\* date with start <= date <= end and, when keywords were selected, a selected
\* keyword.
C1_EveryRowDatedInRange ==
    Filtered =>
      \A c \in Category : \A r \in RowsOf(filtered_data[c]) :
        /\ "date" \in DOMAIN r
        /\ r["date"] # NaT
        /\ pdTimestamp(start_date) <= r["date"]
        /\ r["date"] <= pdTimestamp(end_date)
        /\ selected_keywords # {} => r["keyword"] \in selected_keywords

\* C1 amended: every row of a table filter_data returns has a selected keyword
\* when keywords were selected, and, when the input table has a date column,
\* a non-null date with start <= date <= end (timestamps, start and end at
\* midnight); rows of a table without a date column carry no date.
C1_RowsInRangeWhenDated ==
    Filtered =>
      \A c \in Category : \A r \in RowsOf(filtered_data[c]) :
        /\ selected_keywords # {} => r["keyword"] \in selected_keywords
        /\ "date" \in data_all[c].columns =>
             /\ "date" \in DOMAIN r
             /\ r["date"] # NaT
             /\ pdTimestamp(start_date) <= r["date"]
             /\ r["date"] <= pdTimestamp(end_date)

\* a dated two-row table of which the filter, with keywords selected, kept one row
C1_Witness ==
    /\ Filtered
    /\ selected_keywords # {}
    /\ \E c \in Category :
         /\ "date" \in data_all[c].columns
         /\ Len(data_all[c].rows) = 2
         /\ Len(filtered_data[c].rows) = 1

-----------------------------------------------------------------------------
(* C2 *)

\* C2: every row that passes the keyword test and is dated on a calendar day
\* from start to end, at whatever time of day, is kept by filter_data.
C2_InclusiveByCalendarDay ==
    Filtered =>
      \A c \in Category : \A r \in RowsOf(data_all[c]) :
        ( /\ PassesKeywordTest(r["keyword"])
          /\ "date" \in DOMAIN r
          /\ r["date"] # NaT
          /\ start_date <= DayOf(r["date"])
          /\ DayOf(r["date"]) <= end_date )
        => r \in RowsOf(filtered_data[c])

-----------------------------------------------------------------------------
(* C3 *)

\* C3: in every category, a line whose date source cell fails to parse is in
\* the table load_all_data returns, with a null date, together with the other
\* lines of its file, and in no result of filter_data.
C3_UnparsedDateKeepsRow ==
    Loaded =>
      \A c \in Category : \A f \in FilesOf(c) :
        (WellFormed(c, f) /\ f.dated
           /\ \E j \in 1..Len(f.cells) : FailsToParse(c, f.cells[j]))
        => /\ \A j \in 1..Len(f.cells) : HasLine(data_all[c], f, j)
           /\ \A j \in 1..Len(f.cells) :
                FailsToParse(c, f.cells[j]) =>
                  /\ LineOf(data_all[c], f, j)["date"] = NaT
                  /\ Filtered => ~HasLine(filtered_data[c], f, j)

-----------------------------------------------------------------------------
(* C4 *)

\* C4: every row of a category table comes from a file with at least the
\* tokens of its convention and carries that file's keyword token, never the
\* token with the date stamp and the extension.
C4_KeywordIsConventionToken ==
    Loaded =>
      \A c \in Category : \A r \in RowsOf(data_all[c]) :
        LET parts == Split(r["data"].file)
        IN  /\ Len(parts) >= ConventionParts(c)
            /\ r["keyword"] = Join(parts[KeywordIndex(c)])
            /\ r["keyword"] # Join(parts[Len(parts)])

-----------------------------------------------------------------------------
(* C5 *)

\* C5: a file that is unreadable or whose name has fewer tokens than the
\* convention contributes no row, and the category table is the one the
\* other files alone would give.
C5_FailingFileIsolated ==
    Loaded =>
      \A c \in Category : \A i \in 1..Len(disk[c]) :
        ~WellFormed(c, disk[c][i]) =>
          /\ \A j \in 1..Len(disk[c][i].cells) : ~HasLine(data_all[c], disk[c][i], j)
          /\ data_all[c] = LoadCategory(c, RemoveAt(disk[c], i))

-----------------------------------------------------------------------------
(* C6 *)

\* C6 as stated: every line of a well-formed file without the date source
\* column whose keyword passes the keyword test is in the result of
\* filter_data, whatever the dates and the other files of the category.
C6_UndatedRowsAlwaysKept ==
    Filtered =>
      \A c \in Category : \A f \in FilesOf(c) :
        (WellFormed(c, f) /\ ~f.dated /\ PassesKeywordTest(FileKeyword(c, f)))
        => \A j \in 1..Len(f.cells) : HasLine(filtered_data[c], f, j)

\* C6 amended: when the category table has no date column (no file merged
\* into it has the date source column), every line of a well-formed file
\* whose keyword passes the keyword test is in the result of filter_data,
\* whatever the dates.
C6_UndatedTableKeywordOnly ==
    Filtered =>
      \A c \in Category :
        "date" \notin data_all[c].columns =>
          \A f \in FilesOf(c) :
            (WellFormed(c, f) /\ ~f.dated /\ PassesKeywordTest(FileKeyword(c, f)))
            => \A j \in 1..Len(f.cells) : HasLine(filtered_data[c], f, j)

\* two files without the date source column, one line each, of which the
\* keyword filter kept one
C6_Witness ==
    /\ Filtered
    /\ selected_keywords # {}
    /\ \E c \in Category :
         /\ Len(disk[c]) = 2
         /\ \A f \in FilesOf(c) : WellFormed(c, f) /\ ~f.dated /\ Len(f.cells) = 1
         /\ "date" \notin data_all[c].columns
         /\ Len(filtered_data[c].rows) = 1

-----------------------------------------------------------------------------
(* C9 *)

\* C9: filtering a result of filter_data again, with the same keywords and
\* dates, returns the same tables: same columns, same rows, same order.
C9_Idempotent ==
    Filtered =>
      filter_data(filtered_data, selected_keywords, start_date, end_date) = filtered_data

\* a result in which one table lost a row to the keyword filter and kept one
C9_Witness ==
    /\ Filtered
    /\ selected_keywords # {}
    /\ \E c \in Category :
         /\ "date" \in data_all[c].columns
         /\ Len(data_all[c].rows) = 2
         /\ Len(filtered_data[c].rows) = 1
         /\ \E r \in RowsOf(data_all[c]) : r["keyword"] \notin selected_keywords

-----------------------------------------------------------------------------
(* C10 *)

\* the date test of filter_data: none for a table without a date column
PassesDateTest(r) ==
    "date" \in DOMAIN r =>
      /\ r["date"] # NaT
      /\ pdTimestamp(start_date) <= r["date"]
      /\ r["date"] <= pdTimestamp(end_date)

\* C10: the result for the selected keywords is contained in the result for
\* no keywords, and the result for no keywords holds every row that passes
\* the date test, whatever its keyword.
C10_EmptySelectsAll ==
    Filtered =>
      \A c \in Category :
        LET all == filter_data(data_all, {}, start_date, end_date)[c]
        IN  /\ RowsOf(filtered_data[c]) \subseteq RowsOf(all)
            /\ \A r \in RowsOf(data_all[c]) :
                 PassesDateTest(r) =>
                   /\ r \in RowsOf(all)
                   /\ selected_keywords = {} => r \in RowsOf(filtered_data[c])

\* no keyword selected, and a table of two keywords is returned whole
C10_Witness ==
    /\ Filtered
    /\ selected_keywords = {}
    /\ \E c \in Category :
         /\ Len(filtered_data[c].rows) = 2
         /\ Cardinality(KeywordsOf(filtered_data[c])) = 2

-----------------------------------------------------------------------------
(* C7 *)

\* C7: a script run with the Reload button, or the first one, returns the
\* three tables ingested from the files as they are; a run without the
\* button returns the tables of the last ingestion and leaves the cache as
\* it is, whatever happened to the files.
C7_CacheProtocol ==
    [][ /\ (last' = "ReloadRun" \/ (last' = "Rerun" /\ ~cache.present))
           => /\ data_all' = load_all_data(disk')
              /\ cache' = [present |-> TRUE, value |-> data_all']
        /\ (last' = "Rerun" /\ cache.present)
           => /\ data_all' = cache.value
              /\ cache' = cache ]_vars

\* a run without the button returned tables that are not those of the files
C7_Witness ==
    /\ last = "Rerun"
    /\ RunEnded
    /\ data_all # load_all_data(disk)

-----------------------------------------------------------------------------
(* C8 *)

\* C8: after a script run the tables that were passed to filter_data are the
\* ingested ones, with the rows and columns they had.
C8_InputsUnchanged ==
    RunEnded => \A c \in Category : data_all[c] = cache.value[c]

\* the trend tab wrote its columns into the filtered trend table while the
\* blog table, empty but with columns, was returned as the input object
C8_Witness ==
    /\ pc = "rendered"
    /\ "month" \in filtered_data["trend"].columns
    /\ "month" \notin data_all["trend"].columns
    /\ same_object["blog"]
    /\ data_all["blog"].columns # {}

====
